---- MODULE Spec2Model ----
(***************************************************************************)
(* react-native-draglist: the drag gesture state machine of DragListImpl   *)
(* (src/src/index.tsx), the rows it renders, and the caller around it.     *)
(*                                                                         *)
(* One action per handler.  JavaScript runs each handler to completion, so *)
(* a handler is one atomic step; what is asynchronous in the code (the     *)
(* awaited onReordered, the measure() callback, the interval timer) is a   *)
(* separate step.  The re-render that setExtra asks for is flushed by      *)
(* React before the next event is handled, so it is part of the handler    *)
(* that asked for it.                                                      *)
(*                                                                         *)
(* Coordinates are along the scroll axis.  Items are their own keys (the   *)
(* README's keyExtractor).  A new data reference is a RenderNewData step.  *)
(***************************************************************************)
EXTENDS Integers, Sequences, FiniteSets

\* ------------------------------------------------------------------ bounds
MaxLen == 2      \* the caller's lists hold up to MaxLen items
MaxGen == 1      \* the caller replaces the data reference up to MaxGen times
MaxProps == 2    \* the caller supplies new callbacks up to MaxProps times

\* ------------------------------------------------------- the caller's world
Items == 1..MaxLen

\* The indices rows are rendered at.
Rows == 0..(MaxLen - 1)

\* The list the caller mounts first: items 1..n in order.
InitialData == { [i \in 1..n |-> i] : n \in 0..MaxLen }

\* Height (or width) of the row of item k, as the host lays it out.
ExtentOf(k) == 2

RECURSIVE PosOf(_, _)
\* Position of the row at 0-based index i of list d: rows are stacked.
PosOf(d, i) == IF i = 0 THEN 0 ELSE PosOf(d, i - 1) + ExtentOf(d[i])

ContentExtent(d) == PosOf(d, Len(d))

\* Screen positions where a touch is granted, gesture deltas delivered by
\* move events, page positions and extents the container is measured at,
\* and scroll offsets the host reports.
TouchSet == {3}
DeltaSet == {-2, 0, 2, 4}
WrapPosSet == {2}
WrapExtentSet == {6}
ScrollSet == {0, 2}

\* Extents of a container shorter than its content.
SmallExtentSet == {2}

\* Gesture deltas of a finger that moves a point at a time.
FineDeltaSet == {-1, 0, 1, 3}

\* ------------------------------------------------------------- null values
NoActive == [key |-> 0, index |-> -1]          \* activeDataRef.current = null
NoLayout == [pos |-> -1, extent |-> 0]         \* key absent from layouts
NoTimer == [offset |-> 0, wrapPos |-> 0]       \* autoScrollTimerRef.current = null
NoRequest == 0 - 1                             \* no scrollToOffset outstanding
NoRelease == [from |-> -1, to |-> -1, length |-> 0, outcome |-> "none", awaitable |-> "none",
              calls |-> << >>, by |-> -1]
NoDragCalls == [onDragBegin |-> -1, onDragEnd |-> -1]
NoHover == [called |-> FALSE, index |-> -1, by |-> -1]  \* onHoverChanged not called in this gesture

VARIABLES
    data,            \* props.data at the latest render (= dataRef.current, lastDataRef.current)
    dataGen,         \* dataGenRef.current
    activeData,      \* activeDataRef.current
    panIndex,        \* panIndex.current
    isReordering,    \* isReorderingRef.current
    panGranted,      \* panGrantedRef.current
    posUpdated,      \* flatWrapRefPosUpdatedRef.current
    grantScrollPos,  \* grantScrollPosRef.current
    centerOffset,    \* grantActiveCenterOffsetRef.current
    timer,           \* autoScrollTimerRef.current, with what its closure captured
    scrollPos,       \* scrollPos.current
    wrapLayout,      \* flatWrapLayout.current
    layouts,         \* the Layout Cache
    pan,             \* the pan Animated.Value
    gestate,         \* the PanResponder's gesture state: y0 and dy
    touch,           \* "held" while the PanResponder holds a touch (granted, not released), else "none"
    measuring,       \* the measure() asked at the latest grant has not called back yet
    lateMeasure,     \* a measure() asked at a grant before the latest has not called back yet
    scrollReq,       \* the offset last asked of scrollToOffset and not yet reported by onScroll
    pending,         \* onReordered calls whose awaitable has not settled
    released,        \* the latest run of onPanResponderRelease since the last grant: the
                     \* activeIndex, panIndex and data length it read, and how far it got
                     \* ("reset", "awaiting", "fulfilled" or "rejected"), and how the
                     \* awaitable onReordered gave it settled
    ctx,             \* what the latest render handed to the rows
    hover,           \* called: the latest step called onHoverChanged; index: the argument
                     \* of its latest call since the grant, -1 if none
    ctxRead,         \* what the latest useDragListContext call was given and gave
    supplied,        \* which callbacks (onReordered, onHoverChanged, keyExtractor,
                     \* onDragBegin, onDragEnd) the
                     \* caller supplied at the latest render: 0 the first ones, 1 the next
    anim,            \* per row index, the value the anim of the row was last sent to
    committed,       \* history: the Active Drag Record has been given to onReordered
    dragCalls,       \* which of the caller's onDragBegin / onDragEnd the latest gesture
                     \* called, numbered as in supplied; -1 where it has not called
    tap              \* history: "started" once a row called onDragStart, "ended" once its
                     \* onDragEnd followed with no touch event in between, else "none"

vars == << data, dataGen, activeData, panIndex, isReordering, panGranted, posUpdated,
           grantScrollPos, centerOffset, timer, scrollPos, wrapLayout, layouts, pan,
           gestate, touch, measuring, lateMeasure, scrollReq, pending, released, ctx, hover,
           ctxRead,
           supplied, anim, committed, dragCalls, tap >>

Max(a, b) == IF a > b THEN a ELSE b

\* The value DragListProvider is given at a render (index.tsx 463-472).
Snapshot(ad, pi, re, gen) ==
    [activeData |-> ad, panIndex |-> pi, isReordering |-> re, dataGen |-> gen]

\* The context value outside every DragListProvider.
NoContext == Snapshot(NoActive, -1, FALSE, -1)

\* No useDragListContext call has been made.
NoRead == [read |-> FALSE, inside |-> FALSE, threw |-> FALSE, value |-> NoContext]

Init ==
    /\ data \in InitialData
    /\ dataGen = 0
    /\ activeData = NoActive
    /\ panIndex = -1
    /\ isReordering = FALSE
    /\ panGranted = FALSE
    /\ posUpdated = FALSE
    /\ grantScrollPos = 0
    /\ centerOffset = 0
    /\ timer = NoTimer
    /\ scrollPos = 0
    /\ wrapLayout = [pos |-> 0, extent |-> 1]
    /\ layouts = [k \in Items |-> NoLayout]
    /\ pan = 0
    /\ gestate = [y0 |-> 0, dy |-> 0]
    /\ touch = "none"
    /\ measuring = FALSE
    /\ lateMeasure = FALSE
    /\ scrollReq = NoRequest
    /\ pending = << >>
    /\ released = NoRelease
    /\ ctx = Snapshot(NoActive, -1, FALSE, 0)
    /\ hover = NoHover
    /\ ctxRead = NoRead
    /\ supplied = 0
    /\ anim = [i \in Rows |-> 0]
    /\ committed = FALSE
    /\ dragCalls = NoDragCalls
    /\ tap = "none"

\* ------------------------------------------------------- the rows' slide

\* Variant of animChange that recomputes while a reorder is in flight.
animChangeUnfrozen(index, key, c, lays, prev) ==
    IF c.activeData # NoActive /\ key # c.activeData.key /\ lays[c.activeData.key] # NoLayout
      THEN IF index >= c.panIndex /\ index <= c.activeData.index
             THEN lays[c.activeData.key].extent
           ELSE IF index >= c.activeData.index /\ index <= c.panIndex
             THEN 0 - lays[c.activeData.key].extent
           ELSE 0
      ELSE 0

\* Variant of animChange that leaves the row at the Target Index in place.
animChangeExclusive(index, key, c, lays, prev) ==
    IF c.isReordering THEN prev
    ELSE IF c.activeData # NoActive /\ key # c.activeData.key /\ lays[c.activeData.key] # NoLayout
      THEN IF index > c.panIndex /\ index <= c.activeData.index
             THEN lays[c.activeData.key].extent
           ELSE IF index >= c.activeData.index /\ index < c.panIndex
             THEN 0 - lays[c.activeData.key].extent
           ELSE 0
    ELSE 0

\* Variant of animChange that slides rows the other way.
animChangeReversed(index, key, c, lays, prev) ==
    IF c.isReordering THEN prev
    ELSE IF c.activeData # NoActive /\ key # c.activeData.key /\ lays[c.activeData.key] # NoLayout
      THEN IF index >= c.panIndex /\ index <= c.activeData.index
             THEN 0 - lays[c.activeData.key].extent
           ELSE IF index >= c.activeData.index /\ index <= c.panIndex
             THEN lays[c.activeData.key].extent
           ELSE 0
    ELSE 0

\* index.tsx 575-611: _animChange of the row of item key at index, given the
\* context value c and the Layout Cache lays: where anim is sent, prev being
\* where it was sent before.
animChange(index, key, c, lays, prev) ==
    IF c.isReordering THEN prev
    ELSE IF c.activeData # NoActive /\ key # c.activeData.key /\ lays[c.activeData.key] # NoLayout
      THEN IF index >= c.panIndex /\ index <= c.activeData.index
             THEN lays[c.activeData.key].extent
           ELSE IF index >= c.activeData.index /\ index <= c.panIndex
             THEN 0 - lays[c.activeData.key].extent
           ELSE 0
    ELSE 0

\* Variant of animAtGeneration that lets a row keep its slide.
animKeptAtGeneration(prev) == prev

\* index.tsx 136-138, 613-621: a row of a new generation is a new row, and
\* its layout effect sends anim to 0.
animAtGeneration(prev) == 0

\* index.tsx 520-621: the rows render after a step.  The memo _animChange
\* runs when one of index, panIndex, activeData, isReordering differs from
\* the render before (fresh: activeData is a new object with the same
\* content); the layout effect runs when dataGen differs, and then every
\* row is a new row.
rowsRender(fresh) ==
    IF ctx'.dataGen # ctx.dataGen
      THEN anim' = [i \in Rows |-> animAtGeneration(anim[i])]
    ELSE IF ~fresh /\ ctx' = ctx
      THEN anim' = anim
    ELSE anim' = [i \in Rows |->
                    IF i < Len(data)
                      THEN animChange(i, data[i + 1], ctx', layouts, anim[i])
                      ELSE 0]

\* ------------------------------------------------------ gesture controller

\* Variant of shouldCapturePan that ignores activeDataRef.
shouldCapturePanNoActive == ~isReordering

\* Variant of shouldCapturePan that ignores isReorderingRef.
shouldCapturePanWhileReordering == activeData # NoActive

\* index.tsx 171-173
shouldCapturePan == activeData # NoActive /\ ~isReordering

\* A step that does not call onHoverChanged.
noHoverCall == hover' = [hover EXCEPT !.called = FALSE]

\* index.tsx 351-356
clearAutoScrollTimer == timer' = NoTimer

\* Variant of reset that does nothing when it is called from the render path.
resetSkippedInRender(shouldSetExtra) ==
    IF shouldSetExtra
      THEN /\ activeData' = NoActive
           /\ panIndex' = -1
           /\ ctx' = Snapshot(NoActive, -1, isReordering, dataGen)
           /\ panGranted' = FALSE
           /\ centerOffset' = 0
           /\ clearAutoScrollTimer
      ELSE UNCHANGED << activeData, panIndex, panGranted, centerOffset, timer >>

\* Variant of reset that leaves panIndex.current where the drag had it.
resetKeepsTarget(shouldSetExtra) ==
    /\ activeData' = NoActive
    /\ panIndex' = panIndex
    /\ IF shouldSetExtra THEN ctx' = Snapshot(NoActive, -1, isReordering, dataGen) ELSE TRUE
    /\ panGranted' = FALSE
    /\ centerOffset' = 0
    /\ clearAutoScrollTimer

\* index.tsx 361-376: reset(shouldSetExtra).  pan is deliberately left alone.
\* With shouldSetExtra the rows are rendered again; without, reset runs
\* inside a render, which hands the rows their state itself.
reset(shouldSetExtra) ==
    /\ activeData' = NoActive
    /\ panIndex' = -1
    /\ IF shouldSetExtra THEN ctx' = Snapshot(NoActive, -1, isReordering, dataGen) ELSE TRUE
    /\ panGranted' = FALSE
    /\ centerOffset' = 0
    /\ clearAutoScrollTimer

\* index.tsx 95-96, 211, 305: onDragBegin and onDragEnd are taken from the
\* props of the render that created the handlers; useCallback with no
\* dependencies (175-214, 300-337) and the PanResponder kept in a ref
\* (339-349) keep those handlers for the life of the list.
calledFromClosure(atCreation, atLatestRender) == atCreation

\* index.tsx 175-214: the synchronous part of onPanResponderGrant; the
\* PanResponder has set gestate.y0 to the touch position and dy to 0.
onPanResponderGrant(y) ==
    /\ hover' = NoHover
    /\ UNCHANGED ctxRead
    /\ grantScrollPos' = scrollPos
    /\ pan' = 0
    /\ panGranted' = TRUE
    /\ posUpdated' = FALSE
    /\ measuring' = TRUE
    /\ gestate' = [y0 |-> y, dy |-> 0]
    /\ touch' = "held"
    /\ released' = NoRelease
    /\ tap' = "none"
    /\ dragCalls' = [onDragBegin |-> calledFromClosure(0, supplied), onDragEnd |-> -1]
    /\ UNCHANGED << data, dataGen, activeData, panIndex, isReordering, centerOffset, timer,
                    scrollPos, wrapLayout, layouts, scrollReq, pending, ctx >>

\* index.tsx 339-349: a touch starts at y (onStartShouldSetPanResponder), or
\* a touch the PanResponder does not hold moves to y
\* (onMoveShouldSetPanResponder): shouldCapturePan decides the grant.  A
\* touch that is not granted runs no handler of the list.  The host has
\* answered the measure() of an earlier grant by now, or answers it together
\* with the one asked here.
TouchOffered(y) ==
    /\ touch = "none"
    /\ IF shouldCapturePan
         THEN onPanResponderGrant(y)
         ELSE /\ tap' = "none"
              /\ noHoverCall
              /\ UNCHANGED ctxRead
              /\ UNCHANGED << data, dataGen, activeData, panIndex, isReordering, panGranted,
                              posUpdated, grantScrollPos, centerOffset, timer, scrollPos,
                              wrapLayout, layouts, pan, gestate, touch, measuring,
                              scrollReq, pending, released, ctx, dragCalls >>
    /\ UNCHANGED << supplied, committed, lateMeasure >>
    /\ rowsRender(FALSE)

\* Variant of centerOffsetAtGrant that leaves position math relative to the
\* raw touch point.
centerOffsetRawTouch(p) == 0

\* index.tsx 181-209: the callback of the measure() asked at grant; p is the
\* container's page position now.
centerOffsetAtGrant(p) ==
    IF activeData # NoActive /\ layouts[activeData.key] # NoLayout
      THEN LET itemLayout == layouts[activeData.key]
               clientViewPos == gestate.y0 - p
               clientPos == clientViewPos + scrollPos
               posOnActiveItem == clientPos - itemLayout.pos
           IN  (itemLayout.extent \div 2) - posOnActiveItem
      ELSE 0

\* index.tsx 181-209: that callback runs.  The host answers measure() calls
\* in the order they were made.
MeasureDone(p) ==
    /\ noHoverCall
    /\ UNCHANGED ctxRead
    /\ measuring
    /\ ~lateMeasure
    /\ measuring' = FALSE
    /\ wrapLayout' = [wrapLayout EXCEPT !.pos = p]
    /\ centerOffset' = centerOffsetAtGrant(p)
    /\ posUpdated' = TRUE
    /\ UNCHANGED << data, dataGen, activeData, panIndex, isReordering, panGranted,
                    grantScrollPos, timer, scrollPos, layouts, pan, gestate, touch,
                    scrollReq, pending, released, ctx, tap >>
    /\ UNCHANGED << supplied, committed, lateMeasure, dragCalls >>
    /\ rowsRender(FALSE)

\* index.tsx 175-214: a touch is granted while the measure() asked at the
\* grant before it has not called back, and the host answers that one on
\* its own.
GrantWhileMeasuring(y) ==
    /\ touch = "none"
    /\ shouldCapturePan
    /\ measuring
    /\ onPanResponderGrant(y)
    /\ lateMeasure' = TRUE
    /\ UNCHANGED << supplied, committed >>
    /\ rowsRender(FALSE)

\* index.tsx 181-209: the callback of a measure() asked at an earlier grant
\* runs after a later grant.  It reads the refs and the gesture state, which
\* the PanResponder keeps in one object for all gestures, as they are now.
LateMeasureDone(p) ==
    /\ noHoverCall
    /\ UNCHANGED ctxRead
    /\ lateMeasure
    /\ lateMeasure' = FALSE
    /\ wrapLayout' = [wrapLayout EXCEPT !.pos = p]
    /\ centerOffset' = centerOffsetAtGrant(p)
    /\ posUpdated' = TRUE
    /\ UNCHANGED << data, dataGen, activeData, panIndex, isReordering, panGranted,
                    grantScrollPos, timer, scrollPos, layouts, pan, gestate, touch,
                    measuring, scrollReq, pending, released, ctx, tap >>
    /\ UNCHANGED << supplied, committed, dragCalls >>
    /\ rowsRender(FALSE)

RECURSIVE walkOffByOne(_, _)
\* Variant of walk that steps once more after the loop has stopped.
walkOffByOne(curIndex, probe) ==
    IF /\ curIndex < Len(data)
       /\ layouts[data[curIndex + 1]] # NoLayout
       /\ layouts[data[curIndex + 1]].pos + layouts[data[curIndex + 1]].extent < probe
      THEN walkOffByOne(curIndex + 1, probe)
      ELSE curIndex + 1

RECURSIVE walkInclusive(_, _)
\* Variant of walk that also passes an item whose end is at the probe.
walkInclusive(curIndex, probe) ==
    IF /\ curIndex < Len(data)
       /\ layouts[data[curIndex + 1]] # NoLayout
       /\ layouts[data[curIndex + 1]].pos + layouts[data[curIndex + 1]].extent <= probe
      THEN walkInclusive(curIndex + 1, probe)
      ELSE curIndex

RECURSIVE walk(_, _)
\* index.tsx 244-255: the while loop, from curIndex (0-based) on.
walk(curIndex, probe) ==
    IF /\ curIndex < Len(data)
       /\ layouts[data[curIndex + 1]] # NoLayout
       /\ layouts[data[curIndex + 1]].pos + layouts[data[curIndex + 1]].extent < probe
      THEN walk(curIndex + 1, probe)
      ELSE curIndex

\* Variant of panIndexChanged that takes every computed index for a change.
panIndexComputed(prev, cur) == TRUE

\* index.tsx 258: panIndex.current != curIndex
panIndexChanged(prev, cur) == prev # cur

\* Variant of calledThroughRef: a handler calls what its closure captured.
calledCaptured(atCreation, atLatestRender) == atCreation

\* index.tsx 122-128: hoverRef, reorderRef and keyExtractorRef are assigned
\* the caller's props at every render, and the handlers, created at the
\* first render, call through them (249, 260, 325).
calledThroughRef(atCreation, atLatestRender) == atLatestRender

\* Variant of panAmount that leaves the scrolling since the grant out.
panAmountUnscrolled(movedAmount) == movedAmount

\* index.tsx 234-235
panAmount(movedAmount) == scrollPos - grantScrollPos + movedAmount

\* index.tsx 232-263: updateRendering, with the wrapPos its closure holds and
\* the gestate.dy it reads (movedAmount).
updateRendering(wrapPos, movedAmount) ==
    LET clientPos == wrapPos + scrollPos
        curIndex == walk(0, clientPos + centerOffset)
    IN  /\ pan' = panAmount(movedAmount)
        /\ panIndex' = curIndex
        /\ ctx' = IF panIndexChanged(panIndex, curIndex)
                    THEN Snapshot(activeData, curIndex, isReordering, dataGen)
                    ELSE ctx
        /\ hover' = IF panIndexChanged(panIndex, curIndex)
                      THEN [called |-> TRUE, index |-> curIndex,
                            by |-> calledThroughRef(0, supplied)]
                      ELSE [hover EXCEPT !.called = FALSE]

\* The host has laid the container out and reported it (index.tsx 446-460).
ContainerLaidOut == wrapLayout.extent \in WrapExtentSet \cup SmallExtentSet

\* Offsets the host can scroll this list to: the content less one container.
ScrollRange ==
    { s \in ScrollSet :
        \/ s = 0
        \/ ContainerLaidOut /\ s <= ContentExtent(data) - wrapLayout.extent }

\* Where the host lands when asked to scroll to offset: the nearest offset
\* it can scroll to.
ScrollTargets(offset) ==
    { s \in ScrollRange :
        \A t \in ScrollRange : (t - offset) * (t - offset) >= (s - offset) * (s - offset) }

\* Variant of scrollTarget that asks for the offset as computed.
scrollTargetUnclamped(distance) == scrollPos + distance

\* index.tsx 284: the offset scrollToOffset is asked for.
scrollTarget(distance) == Max(0, scrollPos + distance)

\* index.tsx 277-283; the host reports a scroll only if the offset changes.
scrollOnce(distance, wrapPos, movedAmount) ==
    /\ scrollReq' = IF scrollPos \in ScrollTargets(scrollTarget(distance))
                      THEN NoRequest
                      ELSE scrollTarget(distance)
    /\ updateRendering(wrapPos, movedAmount)

\* Variant of autoScrollOffset that scrolls by a fixed step of 1.
autoScrollOffsetFixed(wrapPos) ==
    LET dragItemExtent == layouts[activeData.key].extent
        leadingEdge == wrapPos - (dragItemExtent \div 2)
        trailingEdge == wrapPos + (dragItemExtent \div 2)
    IN  IF leadingEdge < 0 THEN 0 - 1
        ELSE IF trailingEdge > wrapLayout.extent THEN 1
        ELSE 0

\* index.tsx 265-278: which way, and how far, a move at wrapPos auto-scrolls.
autoScrollOffset(wrapPos) ==
    LET dragItemExtent == layouts[activeData.key].extent
        leadingEdge == wrapPos - (dragItemExtent \div 2)
        trailingEdge == wrapPos + (dragItemExtent \div 2)
    IN  IF leadingEdge < 0 THEN 0 - dragItemExtent
        ELSE IF trailingEdge > wrapLayout.extent THEN dragItemExtent
        ELSE 0

\* index.tsx 216-298
onPanResponderMove(d) ==
    /\ UNCHANGED ctxRead
    /\ touch = "held"
    /\ gestate' = [gestate EXCEPT !.dy = d]
    /\ tap' = "none"
    /\ IF ~posUpdated \/ activeData = NoActive \/ layouts[activeData.key] = NoLayout
         THEN /\ clearAutoScrollTimer
              /\ noHoverCall
              /\ UNCHANGED << pan, panIndex, ctx, scrollReq >>
         ELSE LET wrapPos == gestate.y0 + d - wrapLayout.pos
                  offset == autoScrollOffset(wrapPos)
              IN  IF offset # 0
                    THEN /\ scrollOnce(offset, wrapPos, d)
                         /\ timer' = [offset |-> offset, wrapPos |-> wrapPos]
                    ELSE /\ updateRendering(wrapPos, d)
                         /\ clearAutoScrollTimer
                         /\ UNCHANGED scrollReq
    /\ UNCHANGED << data, dataGen, activeData, isReordering, panGranted, posUpdated,
                    grantScrollPos, centerOffset, scrollPos, wrapLayout, layouts,
                    touch, measuring, pending, released >>
    /\ UNCHANGED << supplied, committed, lateMeasure, dragCalls >>
    /\ rowsRender(FALSE)

\* index.tsx 290-292: the interval fires.
AutoScrollTick ==
    /\ UNCHANGED ctxRead
    /\ timer # NoTimer
    /\ scrollOnce(timer.offset, timer.wrapPos, gestate.dy)
    /\ UNCHANGED << data, dataGen, activeData, isReordering, panGranted, posUpdated,
                    grantScrollPos, centerOffset, timer, scrollPos, wrapLayout, layouts,
                    gestate, touch, measuring, pending, released, tap >>
    /\ UNCHANGED << supplied, committed, lateMeasure, dragCalls >>
    /\ rowsRender(FALSE)

\* Variant of reorderWarranted without the test activeIndex !== panIndex.
reorderWarrantedInPlace(activeIndex, toIndex, length) ==
    /\ activeIndex # -1
    /\ ~(activeIndex = length - 1 /\ toIndex > activeIndex)

\* Variant of reorderWarranted without the exclusion of the last item
\* dropped past the end.
reorderWarrantedPastEnd(activeIndex, toIndex, length) ==
    /\ activeIndex # -1
    /\ activeIndex # toIndex

\* index.tsx 307-315: the release commits a reorder.
reorderWarranted(activeIndex, toIndex, length) ==
    /\ activeIndex # -1
    /\ activeIndex # toIndex
    /\ ~(activeIndex = length - 1 /\ toIndex > activeIndex)

\* Variant of reorderArgs with the two indices exchanged.
reorderArgsSwapped(activeIndex, toIndex) == [from |-> toIndex, to |-> activeIndex]

\* index.tsx 325: the arguments onReordered is called with.
reorderArgs(activeIndex, toIndex) == [from |-> activeIndex, to |-> toIndex]

\* Variant of reorderingAtCall that leaves the flag down.
reorderingAtCallUnset == FALSE

\* index.tsx 323: isReorderingRef.current as onReordered is called.
reorderingAtCall == TRUE

\* Variant of releaseCalls that calls onReordered before anything else.
releaseCallsReorderFirst(warranted) ==
    (IF warranted THEN << "onReordered" >> ELSE << >>)
      \o << "clearAutoScrollTimer", "onDragEnd" >>
      \o (IF warranted THEN << >> ELSE << "reset" >>)

\* index.tsx 303-331: what onPanResponderRelease calls, in order, up to the
\* await, with an onDragEnd and an onReordered supplied.
releaseCalls(warranted) ==
    << "clearAutoScrollTimer", "onDragEnd" >>
      \o (IF warranted THEN << "onReordered" >> ELSE << "reset" >>)

\* index.tsx 300-337, up to the await; the PanResponder then clears its
\* gesture state.
onPanResponderRelease ==
    /\ hover' = NoHover
    /\ UNCHANGED ctxRead
    /\ touch = "held"
    /\ touch' = "none"
    /\ gestate' = [y0 |-> 0, dy |-> 0]
    /\ tap' = "none"
    /\ released' = [from |-> activeData.index, to |-> panIndex, length |-> Len(data),
                    outcome |-> IF reorderWarranted(activeData.index, panIndex, Len(data))
                                  THEN "awaiting" ELSE "reset",
                    awaitable |-> "none",
                    calls |-> releaseCalls(reorderWarranted(activeData.index, panIndex,
                                                            Len(data))),
                    by |-> IF reorderWarranted(activeData.index, panIndex, Len(data))
                             THEN calledThroughRef(0, supplied) ELSE -1]
    /\ IF reorderWarranted(activeData.index, panIndex, Len(data))
         THEN /\ isReordering' = reorderingAtCall
              /\ pending' = Append(pending, reorderArgs(activeData.index, panIndex))
              /\ clearAutoScrollTimer
              /\ UNCHANGED << activeData, panIndex, ctx, panGranted, centerOffset >>
         ELSE /\ reset(TRUE)
              /\ UNCHANGED << isReordering, pending >>
    /\ UNCHANGED << data, dataGen, posUpdated, grantScrollPos, scrollPos, wrapLayout,
                    layouts, pan, measuring, scrollReq >>
    /\ UNCHANGED supplied
    /\ dragCalls' = [dragCalls EXCEPT !.onDragEnd = calledFromClosure(0, supplied)]
    /\ committed' = reorderWarranted(activeData.index, panIndex, Len(data))
    /\ UNCHANGED lateMeasure
    /\ rowsRender(FALSE)

\* Variant of reorderingAfterSettle that clears the flag on fulfilment only.
reorderingAfterReject(ok) == ~ok

\* index.tsx 326-328: what the finally block leaves in isReorderingRef when
\* the awaitable has settled, fulfilled (ok) or rejected.
reorderingAfterSettle(ok) == FALSE

\* Variant of releaseOutcome that swallows a rejection.
releaseOutcomeSwallowed(ok) == "fulfilled"

\* index.tsx 316-328: how the async onPanResponderRelease ends once the
\* awaitable has settled: try/finally with no catch.
releaseOutcome(ok) == IF ok THEN "fulfilled" ELSE "rejected"

\* index.tsx 325-328: the awaitable of the oldest outstanding onReordered
\* settles and the release flow resumes.
ReorderSettles(ok) ==
    /\ noHoverCall
    /\ UNCHANGED ctxRead
    /\ pending # << >>
    /\ pending' = Tail(pending)
    /\ isReordering' = reorderingAfterSettle(ok)
    /\ released' = [released EXCEPT !.outcome = releaseOutcome(ok),
                                    !.awaitable = IF ok THEN "fulfilled" ELSE "rejected"]
    /\ UNCHANGED << data, dataGen, activeData, panIndex, panGranted, posUpdated,
                    grantScrollPos, centerOffset, timer, scrollPos, wrapLayout, layouts, pan,
                    gestate, touch, measuring, scrollReq, ctx, tap >>
    /\ UNCHANGED << supplied, committed, lateMeasure, dragCalls >>
    /\ rowsRender(FALSE)

\* --------------------------------------------------------------- the rows

\* Variant of dragAllowed that lets a single-item list start a drag.
dragAllowedNonEmpty(length) == length > 0

\* index.tsx 399-400
dragAllowed(length) == length > 1

\* index.tsx 398-405: the onDragStart handed to the row at index i.  A row
\* calls it from its own press handling (README 42), which it gets only
\* while the PanResponder does not hold the touch.
onDragStart(i) ==
    /\ noHoverCall
    /\ UNCHANGED ctxRead
    /\ i \in 0..(Len(data) - 1)
    /\ touch = "none"
    /\ IF dragAllowed(Len(data))
         THEN /\ activeData' = [key |-> data[i + 1], index |-> i]
              /\ panIndex' = i
              /\ ctx' = Snapshot([key |-> data[i + 1], index |-> i], i, isReordering, dataGen)
         ELSE UNCHANGED << activeData, panIndex, ctx >>
    /\ tap' = "started"
    /\ UNCHANGED << data, dataGen, isReordering, panGranted, posUpdated, grantScrollPos,
                    centerOffset, timer, scrollPos, wrapLayout, layouts, pan, gestate,
                    touch, measuring, scrollReq, pending, released >>
    /\ UNCHANGED << supplied, dragCalls >>
    /\ committed' = (committed /\ ~dragAllowed(Len(data)))
    /\ UNCHANGED lateMeasure
    /\ rowsRender(dragAllowed(Len(data)))

\* Variant of tapCancels that resets whether or not the pan was granted.
tapCancelsGranted == activeData # NoActive

\* index.tsx 417
tapCancels == activeData # NoActive /\ ~panGranted

\* index.tsx 406-420: the onDragEnd handed to every row.
onDragEnd ==
    /\ noHoverCall
    /\ UNCHANGED ctxRead
    /\ Len(data) > 0
    /\ IF tapCancels
         THEN reset(TRUE)
         ELSE UNCHANGED << activeData, panIndex, ctx, panGranted, centerOffset, timer >>
    /\ tap' = IF tap = "started" THEN "ended" ELSE "none"
    /\ UNCHANGED << data, dataGen, isReordering, posUpdated, grantScrollPos, scrollPos,
                    wrapLayout, layouts, pan, gestate, touch, measuring, scrollReq,
                    pending, released >>
    /\ UNCHANGED << supplied, dragCalls >>
    /\ committed' = (committed /\ ~tapCancels)
    /\ UNCHANGED lateMeasure
    /\ rowsRender(FALSE)

\* The layout the host gives the row at index i of the rendered list.
RowLayout(i) == [pos |-> PosOf(data, i), extent |-> ExtentOf(data[i + 1])]

\* index.tsx 558-570: the row at index i reports its layout.  The host lays
\* rows out, and reports them, from the top of the list down; it reports a
\* layout when it is new or has changed.
onCellLayout(i) ==
    /\ i \in 0..(Len(data) - 1)
    /\ layouts[data[i + 1]] # RowLayout(i)
    /\ \A j \in 0..(i - 1) : layouts[data[j + 1]] = RowLayout(j)
    /\ noHoverCall
    /\ UNCHANGED ctxRead
    /\ layouts' = [layouts EXCEPT ![data[i + 1]] = RowLayout(i)]
    /\ UNCHANGED << data, dataGen, activeData, panIndex, isReordering, panGranted,
                    posUpdated, grantScrollPos, centerOffset, timer, scrollPos, wrapLayout,
                    pan, gestate, touch, measuring, scrollReq, pending, released,
                    ctx, tap >>
    /\ UNCHANGED << supplied, committed, lateMeasure, dragCalls >>
    /\ rowsRender(FALSE)

\* ------------------------------------------------------------ the list host

\* index.tsx 446-460: the container's layout is measured.
onDragLayout(p, e) ==
    /\ wrapLayout # [pos |-> p, extent |-> e]
    /\ noHoverCall
    /\ UNCHANGED ctxRead
    /\ wrapLayout' = [pos |-> p, extent |-> e]
    /\ UNCHANGED << data, dataGen, activeData, panIndex, isReordering, panGranted,
                    posUpdated, grantScrollPos, centerOffset, timer, scrollPos, layouts,
                    pan, gestate, touch, measuring, scrollReq, pending, released,
                    ctx, tap >>
    /\ UNCHANGED << supplied, committed, lateMeasure, dragCalls >>
    /\ rowsRender(FALSE)

\* index.tsx 434-444: the host reports a scroll offset: the one asked by
\* scrollToOffset (clamped by the host), or, while the rendered list is
\* scrollEnabled (index.tsx 495), one the user scrolled to.
onDragScroll(s) ==
    /\ noHoverCall
    /\ UNCHANGED ctxRead
    /\ s \in ScrollRange
    /\ \/ /\ scrollReq # NoRequest
          /\ s \in ScrollTargets(scrollReq)
       \/ /\ scrollReq = NoRequest
          /\ ctx.activeData = NoActive
    /\ scrollPos' = s
    /\ scrollReq' = NoRequest
    /\ UNCHANGED << data, dataGen, activeData, panIndex, isReordering, panGranted,
                    posUpdated, grantScrollPos, centerOffset, timer, wrapLayout, layouts,
                    pan, gestate, touch, measuring, pending, released, ctx, tap >>
    /\ UNCHANGED << supplied, committed, lateMeasure, dragCalls >>
    /\ rowsRender(FALSE)

\* Variant of isActive that shows every row as active while a drag is on.
isActiveWhileDragging(k) == ctx.activeData # NoActive

\* index.tsx 397, 534: the isActive a row with key k was last rendered with.
isActive(k) == ctx.activeData.key = k

\* index.tsx 87-504 with the same data reference: refs are refreshed and the
\* rows are handed the current drag state.
RenderSame ==
    /\ noHoverCall
    /\ UNCHANGED ctxRead
    /\ ctx' = Snapshot(activeData, panIndex, isReordering, dataGen)
    /\ UNCHANGED << data, dataGen, activeData, panIndex, isReordering, panGranted,
                    posUpdated, grantScrollPos, centerOffset, timer, scrollPos, wrapLayout,
                    layouts, pan, gestate, touch, measuring, scrollReq, pending,
                    released, tap >>
    /\ UNCHANGED << supplied, committed, lateMeasure, dragCalls >>
    /\ rowsRender(FALSE)

\* index.tsx 87-504 with the same data reference and new onReordered,
\* onHoverChanged, keyExtractor, onDragBegin and onDragEnd props.
RenderNewCallbacks ==
    /\ noHoverCall
    /\ UNCHANGED ctxRead
    /\ supplied < MaxProps
    /\ supplied' = supplied + 1
    /\ UNCHANGED << committed, lateMeasure, dragCalls >>
    /\ ctx' = Snapshot(activeData, panIndex, isReordering, dataGen)
    /\ UNCHANGED << data, dataGen, activeData, panIndex, isReordering, panGranted,
                    posUpdated, grantScrollPos, centerOffset, timer, scrollPos, wrapLayout,
                    layouts, pan, gestate, touch, measuring, scrollReq, pending,
                    released, tap >>
    /\ rowsRender(FALSE)

\* Lists the caller may hand over next: the outcome of an outstanding
\* reorder (the README's splice), the same items again, or the list without
\* its last item.
Splice(d, from, to) ==
    LET rest == [j \in 1..(Len(d) - 1) |-> IF j <= from THEN d[j] ELSE d[j + 1]]
        at == IF to > Len(rest) THEN Len(rest) ELSE to
    IN  [j \in 1..Len(d) |-> IF j <= at THEN rest[j]
                             ELSE IF j = at + 1 THEN d[from + 1]
                             ELSE rest[j - 1]]

NextData ==
    { data } \cup { SubSeq(data, 1, Len(data) - 1) : n \in { m \in {1} : Len(data) > 0 } }
    \cup { Splice(data, pending[j].from, pending[j].to) :
               j \in { m \in 1..Len(pending) : pending[m].from < Len(data) } }

\* Variant of nextGeneration that keeps the counter where it is.
nextGenerationStuck(gen) == gen

\* index.tsx 382: dataGenRef.current++
nextGeneration(gen) == gen + 1

\* index.tsx 140-141, 378-392, 463-472: a render with a new data reference.
RenderNewData(d) ==
    /\ noHoverCall
    /\ UNCHANGED ctxRead
    /\ dataGen < MaxGen
    /\ d \in NextData
    /\ data' = d
    /\ dataGen' = nextGeneration(dataGen)
    /\ reset(FALSE)
    /\ pan' = 0
    /\ ctx' = Snapshot(NoActive, -1, isReordering, nextGeneration(dataGen))
    /\ UNCHANGED << isReordering, posUpdated, grantScrollPos, scrollPos, wrapLayout,
                    layouts, gestate, touch, measuring, scrollReq, pending, released,
                    tap >>
    /\ UNCHANGED << supplied, dragCalls >>
    /\ committed' = FALSE
    /\ UNCHANGED lateMeasure
    /\ rowsRender(FALSE)

\* index.tsx 87-504: a render with the refs and the rendered state in step
\* hands the rows what they already have; the renders that matter are those
\* after a handler moved a ref without setting state.
RenderDue == ctx # Snapshot(activeData, panIndex, isReordering, dataGen)

Next ==
    \/ \E y \in TouchSet : TouchOffered(y)
    \/ \E p \in WrapPosSet : MeasureDone(p)
    \/ \E d \in DeltaSet : onPanResponderMove(d)
    \/ AutoScrollTick
    \/ onPanResponderRelease
    \/ \E ok \in BOOLEAN : ReorderSettles(ok)
    \/ \E i \in 0..(MaxLen - 1) : onDragStart(i)
    \/ onDragEnd
    \/ \E i \in 0..(MaxLen - 1) : onCellLayout(i)
    \/ \E p \in WrapPosSet, e \in WrapExtentSet : onDragLayout(p, e)
    \/ \E s \in ScrollSet : onDragScroll(s)
    \/ RenderDue /\ RenderSame
    \/ \E d \in NextData : RenderNewData(d)

Spec == Init /\ [][Next]_vars

\* index.tsx 339-349: the PanResponder is created with no
\* onPanResponderTerminate and no onPanResponderTerminationRequest, so the
\* host may take the responder from the list, and no handler of the list
\* runs when it does; the PanResponder clears its gesture state.
onResponderTerminate ==
    /\ touch = "held"
    /\ touch' = "none"
    /\ gestate' = [y0 |-> 0, dy |-> 0]
    /\ noHoverCall
    /\ UNCHANGED << data, dataGen, activeData, panIndex, isReordering, panGranted,
                    posUpdated, grantScrollPos, centerOffset, timer, scrollPos, wrapLayout,
                    layouts, pan, measuring, scrollReq, pending, released, ctx, ctxRead,
                    tap >>
    /\ UNCHANGED << supplied, committed, lateMeasure, dragCalls >>
    /\ rowsRender(FALSE)

\* The list in a host that may take the responder away during a gesture.
TerminateNext ==
    \/ Next
    \/ onResponderTerminate

TerminateSpec == Init /\ [][TerminateNext]_vars

\* The same list with a caller that supplies new callbacks as it renders
\* and keeps the data it mounted.
CallbacksNext ==
    \/ \E i \in 0..(MaxLen - 1) : onCellLayout(i)
    \/ \E p \in WrapPosSet, e \in WrapExtentSet : onDragLayout(p, e)
    \/ \E i \in 0..(MaxLen - 1) : onDragStart(i)
    \/ onDragEnd
    \/ \E y \in TouchSet : TouchOffered(y)
    \/ \E p \in WrapPosSet : MeasureDone(p)
    \/ \E d \in DeltaSet : onPanResponderMove(d)
    \/ AutoScrollTick
    \/ onPanResponderRelease
    \/ \E ok \in BOOLEAN : ReorderSettles(ok)
    \/ RenderNewCallbacks

CallbacksSpec == Init /\ [][CallbacksNext]_vars

\* The same list in a container shorter than its content, with a caller that
\* keeps the data it mounted.
ScrollNext ==
    \/ \E i \in 0..(MaxLen - 1) : onCellLayout(i)
    \/ \E p \in WrapPosSet, e \in SmallExtentSet : onDragLayout(p, e)
    \/ \E s \in ScrollSet : onDragScroll(s)
    \/ \E i \in 0..(MaxLen - 1) : onDragStart(i)
    \/ onDragEnd
    \/ \E y \in TouchSet : TouchOffered(y)
    \/ \E p \in WrapPosSet : MeasureDone(p)
    \/ \E d \in DeltaSet : onPanResponderMove(d)
    \/ AutoScrollTick
    \/ onPanResponderRelease
    \/ \E ok \in BOOLEAN : ReorderSettles(ok)

ScrollSpec == Init /\ [][ScrollNext]_vars

\* The same list with a finger that moves a point at a time, and a caller
\* that keeps the data it mounted.
WalkNext ==
    \/ \E i \in 0..(MaxLen - 1) : onCellLayout(i)
    \/ \E p \in WrapPosSet, e \in WrapExtentSet : onDragLayout(p, e)
    \/ \E s \in ScrollSet : onDragScroll(s)
    \/ \E i \in 0..(MaxLen - 1) : onDragStart(i)
    \/ onDragEnd
    \/ \E y \in TouchSet : TouchOffered(y)
    \/ \E p \in WrapPosSet : MeasureDone(p)
    \/ \E d \in FineDeltaSet : onPanResponderMove(d)
    \/ AutoScrollTick
    \/ onPanResponderRelease
    \/ \E ok \in BOOLEAN : ReorderSettles(ok)

WalkSpec == Init /\ [][WalkNext]_vars

\* The same list on a host that is slow to answer measure(): a gesture may
\* be granted while the measure() of the gesture before it is outstanding.
\* The caller keeps the data it mounted.
MeasureNext ==
    \/ \E i \in 0..(MaxLen - 1) : onCellLayout(i)
    \/ \E p \in WrapPosSet, e \in WrapExtentSet : onDragLayout(p, e)
    \/ \E i \in 0..(MaxLen - 1) : onDragStart(i)
    \/ onDragEnd
    \/ \E y \in TouchSet : TouchOffered(y)
    \/ \E y \in TouchSet : GrantWhileMeasuring(y)
    \/ \E p \in WrapPosSet : MeasureDone(p)
    \/ \E p \in WrapPosSet : LateMeasureDone(p)
    \/ \E d \in DeltaSet : onPanResponderMove(d)
    \/ AutoScrollTick
    \/ onPanResponderRelease
    \/ \E ok \in BOOLEAN : ReorderSettles(ok)

MeasureSpec == Init /\ [][MeasureNext]_vars

\* ------------------------------------------------------ the shared context

\* Variant of useDragListContext that hands back whatever it finds.
useDragListContextLenient(value) == [threw |-> FALSE, value |-> value]

\* DragListContext.tsx 79-87: useDragListContext, given what useContext
\* finds; value is NoContext when it throws.
useDragListContext(value) ==
    IF value = NoContext
      THEN [threw |-> TRUE, value |-> NoContext]
      ELSE [threw |-> FALSE, value |-> value]

\* A component calls useDragListContext: a cell of the list, inside the
\* provider (index.tsx 522-531), or a component mounted outside of it.
ReadContext(inside) ==
    LET got == useDragListContext(IF inside THEN ctx ELSE NoContext)
    IN  /\ ctxRead' = [read |-> TRUE, inside |-> inside, threw |-> got.threw,
                       value |-> got.value]
        /\ noHoverCall
        /\ UNCHANGED << data, dataGen, activeData, panIndex, isReordering, panGranted,
                        posUpdated, grantScrollPos, centerOffset, timer, scrollPos,
                        wrapLayout, layouts, pan, gestate, touch, measuring, scrollReq,
                        pending, released, ctx, tap >>
        /\ UNCHANGED << supplied, committed, lateMeasure, dragCalls >>
        /\ rowsRender(FALSE)

\* The list is laid out, rows start and cancel drags, the caller replaces
\* the data, and components read the context.
ContextNext ==
    \/ \E inside \in BOOLEAN : ReadContext(inside)
    \/ \E p \in WrapPosSet, e \in WrapExtentSet : onDragLayout(p, e)
    \/ \E i \in 0..(MaxLen - 1) : onDragStart(i)
    \/ onDragEnd
    \/ \E d \in NextData : RenderNewData(d)

ContextSpec == Init /\ [][ContextNext]_vars

\* The rows at indices 0..i hold the layout the host gives them.
LaidOutUpTo(i) == \A j \in 0..i : layouts[data[j + 1]] = RowLayout(j)

\* A list that is picked up and put down in place: rows are pressed once they
\* and the rows before them are laid out, every move event has delta 0, and
\* the caller leaves the data alone.
InPlaceNext ==
    \/ \E i \in 0..(MaxLen - 1) : onCellLayout(i)
    \/ \E p \in WrapPosSet, e \in WrapExtentSet : onDragLayout(p, e)
    \/ \E i \in 0..(MaxLen - 1) : i < Len(data) /\ LaidOutUpTo(i) /\ onDragStart(i)
    \/ onDragEnd
    \/ \E y \in TouchSet : TouchOffered(y)
    \/ \E p \in WrapPosSet : MeasureDone(p)
    \/ onPanResponderMove(0)
    \/ AutoScrollTick
    \/ onPanResponderRelease
    \/ RenderSame

InPlaceSpec == Init /\ [][InPlaceNext]_vars

\* ----------------------------------------------------------- properties

\* A step of onPanResponderRelease.
ReleaseStep == touch = "held" /\ touch' = "none"

\* No drag is in progress and no row shows as active.
DragFree ==
    /\ activeData = NoActive
    /\ panIndex = -1
    /\ \A k \in Items : ~isActive(k)

\* C1: a release with panIndex equal to the active item's index does not call
\* onReordered, and no call of onReordered has toIndex = fromIndex.
NoReorderInPlace ==
    [][/\ (ReleaseStep /\ panIndex = activeData.index) => pending' = pending
       /\ \A j \in 1..Len(pending') : pending'[j].to # pending'[j].from]_vars

\* A release found the dragged item, moved by the finger, over its own slot.
ReleasedInPlace ==
    /\ released.outcome = "reset"
    /\ released.from # -1
    /\ released.to = released.from
    /\ pan # 0
    /\ pending = << >>

\* C2: a release of the last item with panIndex beyond its index does not call
\* onReordered and resets the list.
LastItemPastEndIsNoOp ==
    [][(ReleaseStep /\ activeData.index = Len(data) - 1 /\ panIndex > activeData.index)
         => (pending' = pending /\ activeData' = NoActive /\ panIndex' = -1
             /\ ~panGranted')]_vars

\* A release found the last item dragged past the end of the list.
ReleasedLastItemPastEnd ==
    /\ released.outcome = "reset"
    /\ released.from = released.length - 1
    /\ released.to > released.from
    /\ pending = << >>
    /\ activeData = NoActive

\* C3: at most one onReordered call is outstanding at any time.
ReorderSerialized == Len(pending) <= 1

\* A row has started a drag while the onReordered call of the drag before it is
\* still unsettled.
DragStartedWhileReordering ==
    /\ Len(pending) = 1
    /\ isReordering
    /\ tap = "started"
    /\ activeData # NoActive

\* C4: a release with an active item, panIndex different from its index, and
\* not the last item past the end, calls onReordered once, with the index
\* recorded by onDragStart and the panIndex at release.
ReorderCalledWithIndices ==
    [][(/\ ReleaseStep
        /\ activeData # NoActive
        /\ panIndex # activeData.index
        /\ ~(activeData.index = Len(data) - 1 /\ panIndex > activeData.index))
         => (/\ pending' = Append(pending, [from |-> activeData.index, to |-> panIndex])
             /\ data[activeData.index + 1] = activeData.key)]_vars

\* onReordered is outstanding for an item dragged towards the start.
ReorderCalledUpwards ==
    /\ released.outcome = "awaiting"
    /\ released.to < released.from
    /\ pending = << [from |-> released.from, to |-> released.to] >>

\* C5: onReordered is called with 0 <= fromIndex <= length - 1 and
\* 0 <= toIndex <= length, length being that of the data at the release.
ReorderIndicesInRange ==
    [][(ReleaseStep /\ pending' # pending)
         => (/\ pending' = Append(pending, pending'[Len(pending')])
             /\ pending'[Len(pending')].from \in 0..(Len(data) - 1)
             /\ pending'[Len(pending')].to \in 0..Len(data))]_vars

\* onReordered is outstanding with toIndex equal to the length of the data.
ReorderCalledToEnd ==
    /\ released.outcome = "awaiting"
    /\ released.to = released.length
    /\ pending = << [from |-> released.from, to |-> released.to] >>

\* C6: once the awaitable returned by onReordered has settled, fulfilled or
\* rejected, whether or not the data was replaced, the list is drag-free with
\* no further action of the user: no active item, panIndex -1, no row rendered
\* as active.  (A touch taken by the list clears released; a row that starts a
\* drag sets tap.)
SettledIsDragFree ==
    (released.outcome \in {"fulfilled", "rejected"} /\ tap = "none") => DragFree

\* C7: isReorderingRef is not left true once the awaitable returned by
\* onReordered has settled, fulfilled or rejected.
ReorderingClearedOnSettle == pending = << >> => ~isReordering

\* The awaitable returned by onReordered was rejected.
ReorderRejected ==
    /\ released.outcome = "rejected"
    /\ pending = << >>
    /\ ~isReordering

\* C8: while the awaitable returned by onReordered is unsettled, a render,
\* with the same or with new data, leaves the active item and panIndex as
\* they were at the release.
AwaitedBeforeReset ==
    [][(pending # << >> /\ (dataGen' # dataGen \/ RenderSame))
         => (activeData' = activeData /\ panIndex' = panIndex)]_vars

\* C9: with at most one item, onDragStart sets no active item, panIndex stays
\* -1, no touch is captured and onReordered is not called.
NoDragOnShortList ==
    [][/\ Len(data) <= 1 => (/\ activeData = NoActive /\ activeData' = activeData
                              /\ panIndex = -1 /\ panIndex' = panIndex
                              /\ ~shouldCapturePan
                              /\ ~(touch = "none" /\ touch' = "held")
                              /\ Len(pending') <= Len(pending))
       /\ Len(data') <= 1 => (activeData' = NoActive /\ panIndex' = -1)]_vars

\* The row of a single-item list has called onDragStart.
DragStartOnSingleItem ==
    /\ Len(data) = 1
    /\ tap = "started"
    /\ activeData = NoActive

\* C10: after a row's onDragStart followed by its onDragEnd with no touch move
\* in between, there is no active item and no row is rendered as active.
TapCancelResets ==
    tap = "ended" => (activeData = NoActive /\ \A k \in Items : ~isActive(k))

\* C11: while a drag is picked up and put down in place (moves of delta 0, no
\* scrolling, the rows up to the active one laid out), panIndex stays the
\* active item's index and no onReordered call is made.
InPlaceKeepsIndex ==
    /\ activeData # NoActive => panIndex = activeData.index
    /\ pending = << >>
    /\ released.outcome \in {"none", "reset"}

\* The item at index 1 is held, and a move of delta 0 has been handled (it
\* started the auto-scroll timer) with panIndex still 1.
HeldInPlace ==
    /\ touch = "held"
    /\ posUpdated
    /\ timer # NoTimer
    /\ gestate.dy = 0
    /\ activeData.index = 1
    /\ panIndex = 1

\* C12: onHoverChanged is called exactly by the steps that, while the touch is
\* held, give panIndex a different value for an active item (a move or an
\* auto-scroll tick), with that value as argument; not by a drag start, a
\* release or a reset; and never twice running with the same index in one
\* gesture.
HoverOnIndexChange ==
    [][/\ hover'.called <=> (/\ touch = "held" /\ touch' = "held"
                             /\ activeData' # NoActive
                             /\ panIndex' # panIndex)
       /\ hover'.called => (/\ hover'.index = panIndex'
                            /\ hover'.index # hover.index)
       /\ ~hover'.called => hover'.index \in {hover.index, -1}]_vars

\* A held item hovers over another index and onHoverChanged has just been
\* called with it.
HoverCalled ==
    /\ touch = "held"
    /\ hover.called
    /\ hover.index = panIndex
    /\ panIndex # activeData.index

\* C13: the row with key k is rendered isActive iff there is an active item
\* and its key is k; so at most one row is active, and none when there is no
\* active item.
ActiveRowIsActiveItem ==
    /\ \A k \in Items : isActive(k) <=> (activeData # NoActive /\ activeData.key = k)
    /\ Cardinality({ k \in Items : isActive(k) }) <= 1
    /\ activeData = NoActive => \A k \in Items : ~isActive(k)

\* One row of a two-row list is rendered active and the other is not.
OneRowActive ==
    /\ Len(data) >= 2
    /\ \E i, j \in 1..Len(data) : isActive(data[i]) /\ ~isActive(data[j])

\* C14: if the awaitable returned by onReordered is rejected, the release flow
\* ends rejected too, with isReorderingRef cleared.
RejectionPropagates ==
    released.awaitable = "rejected" => (released.outcome = "rejected" /\ ~isReordering)

\* The awaitable returned by onReordered has been rejected and the release
\* flow has ended.
RejectionSurfaced ==
    /\ released.awaitable = "rejected"
    /\ released.outcome # "awaiting"
    /\ pending = << >>

\* C15: useDragListContext called outside a provider throws and gives no
\* value; called inside a provider it gives the provider's value as it is.
ContextReadThrowsOutside ==
    [][ctxRead' # ctxRead
         => /\ ctxRead'.read
            /\ IF ctxRead'.inside
                 THEN ~ctxRead'.threw /\ ctxRead'.value = ctx
                 ELSE ctxRead'.threw /\ ctxRead'.value = NoContext]_vars

\* A component outside the provider has called useDragListContext while an
\* item is active.
ContextReadOutside ==
    /\ ctxRead.read
    /\ ~ctxRead.inside
    /\ ctxRead.threw
    /\ activeData # NoActive

\* End position of the row at 0-based index j, as last reported.
EndOf(j) == layouts[data[j + 1]].pos + layouts[data[j + 1]].extent

\* Every row has reported its layout, and the rows are in order of position.
AllLaidOutSorted ==
    /\ \A j \in 1..Len(data) : layouts[data[j]] # NoLayout
    /\ \A j, k \in 1..Len(data) : j < k => layouts[data[j]].pos < layouts[data[k]].pos

\* A move event to a new position that reaches updateRendering.
MovedStep ==
    /\ touch = "held" /\ touch' = "held"
    /\ gestate'.dy # gestate.dy
    /\ posUpdated
    /\ activeData # NoActive
    /\ layouts[activeData.key] # NoLayout

\* clientPos + centerOffset of that move.
MoveProbe == gestate'.y0 + gestate'.dy - wrapLayout.pos + scrollPos + centerOffset

\* C16 as the code has it: with every layout known and sorted, a move
\* resolves to the one index i with end(i-1) < probe <= end(i) (the length of
\* the list when the probe is past every end), so a probe exactly at an
\* item's end stays with that item.
WalkResolvesClosedEnd ==
    [][(MovedStep /\ AllLaidOutSorted)
         => /\ panIndex' \in 0..Len(data)
            /\ \A j \in 0..(panIndex' - 1) : EndOf(j) < MoveProbe
            /\ panIndex' < Len(data) => MoveProbe <= EndOf(panIndex')]_vars

\* C16 as stated: with every layout known and sorted, a move resolves to
\* the one index i with end(i-1) <= probe < end(i), so a probe exactly at an
\* item's end goes to the later item.
WalkResolvesHalfOpen ==
    [][(MovedStep /\ AllLaidOutSorted)
         => /\ panIndex' \in 0..Len(data)
            /\ \A j \in 0..(panIndex' - 1) : EndOf(j) <= MoveProbe
            /\ panIndex' < Len(data) => MoveProbe < EndOf(panIndex')]_vars

\* The finger has moved the probe exactly onto the end of a row, and the
\* move resolved to that row.
ProbeAtRowEnd ==
    /\ touch = "held" /\ posUpdated /\ activeData # NoActive
    /\ AllLaidOutSorted
    /\ gestate.dy # 0
    /\ pan = scrollPos - grantScrollPos + gestate.dy
    /\ panIndex < Len(data)
    /\ gestate.y0 + gestate.dy - wrapLayout.pos + scrollPos + centerOffset = EndOf(panIndex)

\* The walk of that move comes to a row with no layout before it comes to
\* a row whose end is not before the probe.
WalkMeetsUnknown ==
    \E u \in 0..(Len(data) - 1) :
        /\ layouts[data[u + 1]] = NoLayout
        /\ \A j \in 0..(u - 1) : layouts[data[j + 1]] # NoLayout /\ EndOf(j) < MoveProbe

\* C17: a move whose walk stops at a row with no layout keeps the target
\* index it had and does not call onHoverChanged.
UnknownLayoutKeepsIndex ==
    [][(MovedStep /\ WalkMeetsUnknown) => (panIndex' = panIndex /\ ~hover'.called)]_vars

\* C18: shouldCapturePan holds exactly when an item is active and no
\* reorder is in flight, so a touch is granted only with an active item and
\* no onReordered call outstanding.
CaptureNeedsActiveAndIdle ==
    [][/\ shouldCapturePan <=> (activeData # NoActive /\ ~isReordering)
       /\ (touch = "none" /\ touch' = "held")
            => (activeData # NoActive /\ ~isReordering /\ pending = << >>)]_vars

\* While an onReordered call is outstanding a row has started a new drag
\* and its touch has been offered and refused.
CaptureRefusedWhileReordering ==
    /\ released.outcome = "awaiting"
    /\ isReordering
    /\ pending # << >>
    /\ activeData # NoActive
    /\ activeData.index # released.from
    /\ tap = "none"
    /\ touch = "none"
    /\ ~shouldCapturePan

\* C19: every gesture is followed by one reset of the drag state before
\* the next onDragStart, whether its release did nothing or its onReordered
\* call fulfilled or rejected; so a row that starts a drag after a finished
\* release finds the drag state reset, with panGrantedRef false.
ResetBeforeNextDrag ==
    [][(/\ tap' = "started"
        /\ released.outcome \in {"reset", "fulfilled", "rejected"})
         => ~panGranted]_vars

\* C20: isReorderingRef is true exactly while an onReordered call is
\* outstanding, so never while a touch is held; it rises only in a release
\* that calls onReordered with two different indices and falls only when
\* that call settles.
ReorderingWhileOutstanding ==
    [][/\ isReordering <=> pending # << >>
       /\ isReordering' <=> pending' # << >>
       /\ touch' = "held" => ~isReordering'
       /\ (~isReordering /\ isReordering')
            => /\ ReleaseStep
               /\ released'.from # released'.to
               /\ pending' = Append(pending, [from |-> released'.from, to |-> released'.to])
       /\ (isReordering /\ ~isReordering')
            => /\ pending' = Tail(pending)
               /\ released'.awaitable # "none"]_vars

\* A row's press has come and gone while an onReordered call is
\* outstanding, and the flag is still up.
ReorderingThroughTap ==
    /\ isReordering
    /\ pending # << >>
    /\ released.outcome = "awaiting"
    /\ tap = "ended"

\* C21: an auto-scroll timer is pending only while a touch is held with an
\* active item and no reorder in flight, so no tick runs once the gesture
\* has ended.
TimerOnlyWhileDragging ==
    timer # NoTimer => (touch = "held" /\ activeData # NoActive /\ ~isReordering)

\* Positions in the calls of the last release where it called name.
CallsOf(name) == { n \in 1..Len(released.calls) : released.calls[n] = name }

\* C22: every release calls the external onDragEnd exactly once, also when
\* it reorders nothing, after it has cleared the auto-scroll timer and
\* before it calls onReordered.
DragEndOncePerRelease ==
    [][ReleaseStep
         => /\ Cardinality({ n \in 1..Len(released'.calls) :
                                released'.calls[n] = "onDragEnd" }) = 1
            /\ \A n, m \in 1..Len(released'.calls) :
                  /\ (released'.calls[n] = "onDragEnd"
                        /\ released'.calls[m] = "onReordered") => n < m
                  /\ (released'.calls[n] = "clearAutoScrollTimer"
                        /\ released'.calls[m] = "onDragEnd") => n < m
            /\ \E n \in 1..Len(released'.calls) :
                  released'.calls[n] = "clearAutoScrollTimer"
            /\ (\E n \in 1..Len(released'.calls) : released'.calls[n] = "onReordered")
                  <=> Len(pending') = Len(pending) + 1
            /\ timer' = NoTimer]_vars

\* A release that reorders nothing has called onDragEnd.
DragEndCalledOnNoOp ==
    /\ released.outcome = "reset"
    /\ released.from # -1
    /\ CallsOf("onDragEnd") # {}
    /\ CallsOf("onReordered") = {}

\* A tick of the auto-scroll timer that changes what the list shows.
TickStep ==
    /\ touch = "held" /\ touch' = "held"
    /\ timer # NoTimer /\ timer' = timer
    /\ gestate' = gestate
    /\ pan' # pan \/ panIndex' # panIndex

\* C23: after a move and after a tick of the auto-scroll timer, pan is the
\* scroll offset now less the scroll offset at the grant, plus the delta
\* of the latest move, and the target index is the walk's answer for the
\* scroll offset now.
PanFollowsScroll ==
    [][(MovedStep \/ TickStep)
         => /\ pan' = scrollPos - grantScrollPos + gestate'.dy
            /\ panIndex' = walk(0, MoveProbe)]_vars

\* The list has scrolled under a held finger and a move or tick after
\* that has changed the target index.
PanAfterAutoScroll ==
    /\ touch = "held"
    /\ timer # NoTimer
    /\ scrollPos # grantScrollPos
    /\ pan = scrollPos - grantScrollPos + gestate.dy
    /\ hover.called

\* Where the touch of that move is in the container, and the edges of a
\* span of the active item's extent around it (index.tsx 230, 265-267).
MoveWrapPos == gestate'.y0 + gestate'.dy - wrapLayout.pos
ActiveExtent == layouts[activeData.key].extent
LeadingOut == MoveWrapPos - (ActiveExtent \div 2) < 0
TrailingOut == MoveWrapPos + (ActiveExtent \div 2) > wrapLayout.extent

\* The scroll request left by a scrollOnce by step: the offset asked for,
\* unless the list cannot move that way.
Scrolled(step) ==
    /\ scrollReq' \in {NoRequest, Max(0, scrollPos + step)}
    /\ scrollReq' = NoRequest => scrollPos \in ScrollTargets(Max(0, scrollPos + step))

ScrollRequestClamped ==
    [][(touch' = "held" /\ timer' # NoTimer)
         => /\ scrollTarget(timer'.offset) >= 0
            /\ scrollTarget(timer'.offset) = Max(0, scrollPos + timer'.offset)
            /\ scrollReq' \notin {scrollReq, NoRequest}
                 => scrollReq' = scrollTarget(timer'.offset)
            /\ scrollReq' # NoRequest => scrollReq' >= 0]_vars

\* Auto-scroll backwards runs with the list already at a scroll offset
\* smaller than the step.
ScrollBackwardsAtStart ==
    /\ touch = "held"
    /\ timer # NoTimer
    /\ timer.offset < 0
    /\ scrollPos + timer.offset < 0
    /\ pan = scrollPos - grantScrollPos + gestate.dy

\* The rows have been handed a new context value with the Reordering Flag
\* down.
RowsRecompute == ctx' # ctx /\ ~ctx'.isReordering

\* C26: a row that is not the active one, at index i, rendered during a
\* drag with the active item's layout known and the Reordering Flag down,
\* is sent to +E when TargetIndex <= i <= ActiveIndex, to -E when
\* ActiveIndex <= i <= TargetIndex and to 0 otherwise, E being the active
\* item's extent; rendered with no drag on, it is sent to 0.
SlideMakesRoom ==
    [][RowsRecompute
         => \A n \in 1..Len(data') :
              LET i == n - 1
                  ai == ctx'.activeData.index
                  pi == ctx'.panIndex
                  E == layouts'[ctx'.activeData.key].extent
              IN  /\ ctx'.activeData = NoActive => anim'[i] = 0
                  /\ (/\ ctx'.activeData # NoActive
                      /\ data'[n] # ctx'.activeData.key
                      /\ layouts'[ctx'.activeData.key] # NoLayout)
                       => /\ (pi <= i /\ i <= ai) => anim'[i] = E
                          /\ (ai <= i /\ i <= pi) => anim'[i] = 0 - E
                          /\ (~(pi <= i /\ i <= ai) /\ ~(ai <= i /\ i <= pi))
                               => anim'[i] = 0]_vars

\* The first item is being dragged over the second, whose row has been
\* sent backwards by the first item's extent.
RowSlidBackwards ==
    /\ touch = "held"
    /\ Len(data) >= 2
    /\ activeData = [key |-> data[1], index |-> 0]
    /\ panIndex = 1
    /\ ~ctx.isReordering
    /\ layouts[data[1]] # NoLayout
    /\ anim[1] = 0 - layouts[data[1]].extent

\* C27: a render that hands the rows the Reordering Flag up, with the
\* generation it had, leaves every row's slide where it was, whatever
\* happened to the target index, the active item or the indices.
SlideFrozenWhileReordering ==
    [][/\ (ctx'.isReordering /\ ctx'.dataGen = ctx.dataGen) => anim' = anim
       /\ (isReordering' /\ dataGen' = dataGen) => anim' = anim]_vars

\* While an onReordered call is outstanding a row has started a drag, and
\* a row still has the slide of the drag before, which is not the slide
\* the new drag would give it.
SlideKeptThroughRender ==
    /\ isReordering
    /\ ctx.isReordering
    /\ ctx.activeData # NoActive
    /\ tap = "started"
    /\ \E n \in 1..Len(data) :
          /\ anim[n - 1] # 0
          /\ anim[n - 1] # animChangeUnfrozen(n - 1, data[n], ctx, layouts, 0)

\* C28: a step that changes the generation counter leaves the slide of
\* every row at zero, also with the Reordering Flag up.
SlideZeroAtGeneration ==
    [][dataGen' # dataGen => \A i \in Rows : anim'[i] = 0]_vars

\* New data has arrived while the onReordered call of a drag from one index
\* to another is outstanding, and no row has a slide.
SlideZeroWhileReordering ==
    /\ dataGen > 0
    /\ ctx.dataGen = dataGen
    /\ ctx.isReordering
    /\ isReordering
    /\ released.outcome = "awaiting"
    /\ released.from # released.to
    /\ \A i \in Rows : anim[i] = 0

\* C29: the generation counter never goes down; it goes up by one in a
\* render with a new list and is left alone by drag start, grant, move,
\* release, settle and every other step.
GenerationMonotonic ==
    [][/\ dataGen' \in {dataGen, dataGen + 1}
       /\ data' # data => dataGen' = dataGen + 1
       /\ dataGen' # dataGen => (ctx'.dataGen = dataGen' /\ activeData' = NoActive)
       /\ (\/ tap' # tap \/ touch' # touch \/ gestate' # gestate
           \/ pending' # pending \/ layouts' # layouts \/ scrollPos' # scrollPos
           \/ wrapLayout' # wrapLayout \/ measuring' # measuring)
            => dataGen' = dataGen]_vars

\* A row has started a drag on a list of a later generation.
DragInLaterGeneration ==
    /\ dataGen > 0
    /\ ctx.dataGen = dataGen
    /\ tap = "started"
    /\ activeData # NoActive

\* C30: the onHoverChanged and keyExtractor a move or tick uses, and the
\* onReordered a release calls, are the ones the caller supplied at the
\* latest render, not the ones of the render that created the handlers.
LatestCallbacksCalled ==
    [][/\ hover'.called => hover'.by = supplied
       /\ (ReleaseStep /\ Len(pending') > Len(pending)) => released'.by = supplied
       /\ (ReleaseStep /\ Len(pending') = Len(pending)) => released'.by = -1]_vars

\* A release has called an onReordered supplied after the handlers were
\* created.
LaterReorderCalled ==
    /\ supplied > 0
    /\ released.outcome = "awaiting"
    /\ released.by = supplied
    /\ pending # << >>

\* C31: a row's onDragEnd called while the pan is granted leaves the Active
\* Drag Record, the Target Index, the granted flag, the Reordering Flag and
\* the auto-scroll timer as they are, and what the rows show with them.
DragEndNoOpWhileGranted ==
    [][(panGranted /\ touch' = touch /\ gestate' = gestate /\ onDragEnd)
         => /\ activeData' = activeData
            /\ panIndex' = panIndex
            /\ panGranted' = panGranted
            /\ isReordering' = isReordering
            /\ timer' = timer
            /\ ctx' = ctx]_vars

\* A captured gesture is auto-scrolling with the dragged item away from its
\* slot, and a step after the latest onHoverChanged call, as the onDragEnd of
\* the row is when the press ends, has left the drag as it was.
GrantedDragSurvivesDragEnd ==
    /\ touch = "held"
    /\ panGranted
    /\ activeData # NoActive
    /\ panIndex # activeData.index
    /\ timer # NoTimer
    /\ hover.index = panIndex
    /\ ~hover.called
    /\ ~tapCancels

\* C32: the Active Drag Record is null exactly when the Target Index is -1,
\* and while the record is set its index is one of 0..length-1 and the Target
\* Index one of 0..length, for the length of the list as it is now.
DragRecordAndTarget ==
    /\ activeData = NoActive <=> panIndex = -1
    /\ activeData # NoActive
         => /\ activeData.index \in 0..(Len(data) - 1)
            /\ panIndex \in 0..Len(data)

\* A move has taken the Target Index past the last row, to the length of
\* the list.
TargetAtLength ==
    /\ touch = "held"
    /\ activeData # NoActive
    /\ gestate.dy # 0
    /\ hover.index = Len(data)
    /\ panIndex = Len(data)

\* C33: every call of onReordered is made with an Active Drag Record that no
\* earlier call was made with: a row has called onDragStart since the call
\* before it, so one onDragStart leads to one onReordered at most.
ReorderNeedsNewDragStart ==
    [][(ReleaseStep /\ Len(pending') > Len(pending)) => ~committed]_vars

\* C34: the granted flag is true only while the PanResponder holds the touch
\* it was granted; with no captured gesture in progress it is false.
GrantedOnlyWhileHeld == panGranted => touch = "held"

\* A move event or a release of a touch that is held with no Active Drag
\* Record: the record was dropped while the touch was held.
HeldStepWithoutRecord == touch = "held" /\ activeData = NoActive /\ gestate' # gestate

\* C35: a render with a new data reference drops the drag in that step (no
\* Active Drag Record, Target Index -1, granted flag false, no timer); a
\* move of the touch still held then changes nothing of the list, and its
\* release calls no onReordered.
DataChangeAbandonsDrag ==
    [][/\ dataGen' # dataGen
            => /\ activeData' = NoActive
               /\ panIndex' = -1
               /\ ~panGranted'
               /\ timer' = NoTimer
       /\ (HeldStepWithoutRecord /\ touch' = "held")
            => /\ ~hover'.called
               /\ UNCHANGED << data, dataGen, activeData, panIndex, isReordering,
                               panGranted, posUpdated, grantScrollPos, centerOffset, timer,
                               scrollPos, wrapLayout, layouts, pan, measuring, scrollReq,
                               pending, released, ctx, anim >>
       /\ (HeldStepWithoutRecord /\ touch' = "none")
            => /\ pending' = pending
               /\ released'.outcome = "reset"
               /\ ~isReordering']_vars

\* The caller replaced the data while a touch was held on a dragged row, and
\* the touch has been lifted: its release found no record and called no
\* onReordered.
ReleasedAfterDataChange ==
    /\ touch = "none"
    /\ dataGen > 0
    /\ released.from = -1
    /\ released.outcome = "reset"
    /\ CallsOf("onReordered") = {}
    /\ CallsOf("onDragEnd") # {}
    /\ pending = << >>
    /\ activeData = NoActive

\* C36: a move event delivered after a grant and before the callback of the
\* measure() asked at that grant has run leaves pan and the Target Index as
\* they are, calls no onHoverChanged and starts no auto-scroll; it clears
\* the timer.
MoveWaitsForMeasure ==
    [][(touch = "held" /\ touch' = "held" /\ gestate' # gestate /\ measuring)
         => /\ pan' = pan
            /\ panIndex' = panIndex
            /\ ~hover'.called
            /\ timer' = NoTimer
            /\ scrollReq' = scrollReq
            /\ ctx' = ctx]_vars

\* Where the rows other than the dragged one show on screen: where the host
\* laid them out, moved by their slide.
ShownAt(i) == PosOf(data, i) + anim[i]

\* The slots of the list that no such row shows in.
OpenSlots ==
    { PosOf(data, i) : i \in 0..(Len(data) - 1) }
      \ { ShownAt(i) : i \in { j \in 0..(Len(data) - 1) : j # activeData.index } }

\* Where every row shows, the dragged one in the open slot.
ShownWithDragged(i) ==
    IF i = activeData.index THEN CHOOSE q \in OpenSlots : TRUE ELSE ShownAt(i)

\* The items in the order the screen shows them.
ScreenOrder ==
    [n \in 1..Len(data) |->
        data[1 + CHOOSE i \in 0..(Len(data) - 1) :
                    Cardinality({ j \in 0..(Len(data) - 1) :
                                     ShownWithDragged(j) < ShownWithDragged(i) }) = n - 1]]

\* C37: when a release finds the Target Index away from the index of the
\* dragged item, the rows show, one slot open for the dragged item, in the
\* order of the list the README's splice makes of (fromIndex, toIndex).
ScreenShowsSplice ==
    [][(ReleaseStep /\ activeData # NoActive /\ panIndex # activeData.index)
         => /\ Cardinality(OpenSlots) = 1
            /\ ScreenOrder = Splice(data, activeData.index, panIndex)]_vars

\* A release has found an item dragged upwards, the rows it passed shown a
\* slot lower, and has called onReordered; the screen still shows that.
ReleasedShowingSplice ==
    /\ touch = "none"
    /\ released.outcome = "awaiting"
    /\ released.to < released.from
    /\ activeData.index = released.from
    /\ panIndex = released.to
    /\ \E i \in Rows : anim[i] > 0
    /\ ScreenOrder # data
    /\ ScreenOrder = Splice(data, released.from, released.to)

\* The entries the Layout Cache holds for the items of the list are in the
\* order of the items: position never decreases with the index.
CacheInListOrder ==
    \A j, k \in 1..Len(data) :
        (j < k /\ layouts[data[j]] # NoLayout /\ layouts[data[k]] # NoLayout)
            => layouts[data[j]].pos <= layouts[data[k]].pos

\* C38: whenever a move or a tick of the auto-scroll timer computes the
\* Target Index anew, the entries of the Layout Cache for the items of the
\* list are in the order of the items.
WalkReadsOrderedCache ==
    [][(MovedStep \/ TickStep) => CacheInListOrder]_vars

\* C39: the onDragBegin a grant calls and the onDragEnd a release calls are
\* the ones the caller supplied at the latest render.
DragCallsAreLatest ==
    [][/\ (touch = "none" /\ touch' = "held") => dragCalls'.onDragBegin = supplied
       /\ ReleaseStep => dragCalls'.onDragEnd = supplied]_vars

====
